---- MODULE Spec2Model ----
(***************************************************************************)
(* State-machine model of app.go (excel-db-analysis).  The file holds two  *)
(* variants of the application: the paged variant (App with currentSQL,    *)
(* currentPage, currentPageSize; lines 1-372) and the cached-result        *)
(* variant (App with queryResult; lines 374-622).  The variable `variant`  *)
(* says which App was built by NewApp.                                     *)
(***************************************************************************)
EXTENDS Integers, Sequences, FiniteSets, TLC

\* ---------------------------------------------------------------- bounds
\* sheets in a workbook
MaxSheets == 2
\* data rows (rows after the header) of a sheet
MaxDataRows == 2
\* cells in a row of a sheet (header or data)
MaxCols == 1
\* characters of a query text
MaxTextLen == 2
\* rows of the result set the store returns for the query
MaxQRows == 3
\* columns of the result set an export writes
MaxQCols == 27
\* page number and page size of an interactive session
MaxPageArg == 2
\* width of Go's int, scaled down from 64 bits so that wrap-around is
\* within enumeration: arithmetic on int is taken modulo 2^IntBits
IntBits == 4

VARIABLES
    variant,          \* "paged" | "cached": which App the process runs
    db,               \* App.db: "open" | "nil"
    pc,               \* position of the running handler; "idle" when none runs
    tables,           \* the store: table sheetN for N in 1..MaxSheets
    sheets,           \* OpenExcel: len(sheets)
    sheetIdx,         \* OpenExcel: loop variable sheetIdx (0-based)
    rowIdx,           \* OpenExcel: loop variable rowIdx
    rows,             \* OpenExcel: rows of the sheet being imported
    successCount,     \* OpenExcel: successCount
    skipped,          \* OpenExcel: sheet numbers that took the `continue`
    replaced,         \* the last DROP TABLE removed a table that held rows
    openTx,           \* transactions begun and neither committed nor rolled back
    openStmts,        \* prepared statements not yet closed
    openFiles,        \* workbook handles opened and not yet closed
    imports,          \* OpenExcel calls so far
    currentSQL,       \* App.currentSQL (paged)
    currentPage,      \* App.currentPage (paged)
    currentPageSize,  \* App.currentPageSize (paged)
    queryResult,      \* App.queryResult (cached)
    result,           \* what the store answers to the statement "q"
    written,          \* the file the last completed export saved
    ret               \* what the last handler returned

importVars == <<tables, sheets, sheetIdx, rowIdx, rows, successCount, skipped,
                replaced, openTx, openStmts, openFiles, imports>>

queryVars == <<currentSQL, currentPage, currentPageSize, queryResult, result, written>>

vars == <<variant, db, pc, ret, importVars, queryVars>>

\* ---------------------------------------------------------------- values
\* A value of the store or of a result row: text, or SQL NULL.
Text(s) == [kind |-> "text", v |-> s]
Null == [kind |-> "null", v |-> ""]

\* The text of cell i of row r of a sheet (r = 0 is the header).
Cell(r, i) == "r" \o ToString(r) \o "c" \o ToString(i)

\* A sheet as GetRows returns it, given the width of each row: trailing empty
\* rows are not returned, so the last row has a cell.
SheetOf(ws) == [r \in 1..Len(ws) |-> [i \in 1..ws[r] |-> Cell(r - 1, i)]]

RowWidths ==
    UNION {[1..n -> 0..MaxCols] : n \in 1..(MaxDataRows + 1)}

Sheets ==
    {<<>>} \cup {SheetOf(ws) : ws \in {w \in RowWidths : w[Len(w)] > 0}}

NoTable == [exists |-> FALSE, columns |-> <<>>, rows |-> <<>>]

\* What a handler returns: the operation, the kind of message, and the fields
\* of the message or result map.  engine: the handler called db.Query;
\* dialog: it opened the save dialog.
NoRet ==
    [op |-> "none", kind |-> "none", row |-> 0, imported |-> 0, discovered |-> 0,
     columns |-> <<>>, data |-> <<>>, total |-> 0, totalPages |-> 0,
     currentPage |-> 0, pageSize |-> 0, value |-> <<>>,
     engine |-> FALSE, dialog |-> FALSE]

NoResult == [Columns |-> <<>>, Data |-> <<>>]

NoFile == [kind |-> "none", cells |-> <<>>, records |-> <<>>]

Ret(op, kind) == [NoRet EXCEPT !.op = op, !.kind = kind]

\* ---------------------------------------------------------------- NewApp
\* Paged NewApp: db is nil when sql.Open (twice) or Ping failed, and then
\* the other fields are zero.
NewApp ==
    /\ variant = "paged"
    /\ db \in {"open", "nil"}
    /\ currentSQL = <<>>
    /\ currentPage = (IF db = "open" THEN 1 ELSE 0)
    /\ currentPageSize = (IF db = "open" THEN 20 ELSE 0)
    /\ queryResult = NoResult

\* Cached NewApp: the App is built with whatever sql.Open returned, nil when
\* it failed.
NewAppCached ==
    /\ variant = "cached"
    /\ db \in {"open", "nil"}
    /\ currentSQL = <<>>
    /\ currentPage = 0
    /\ currentPageSize = 0
    /\ queryResult = NoResult

\* ---------------------------------------------------------------- import helpers
\* columns[i] = "column<i+1>"
ColumnNames(colCount) == [i \in 1..colCount |-> "column" \o ToString(i)]

\* What CREATE TABLE sheetN (<columns> TEXT) leaves in the store.  With no
\* columns the statement reads "CREATE TABLE sheetN ( TEXT)": one column
\* named TEXT.
CreateTable(colCount) ==
    [exists |-> TRUE,
     columns |-> IF colCount = 0 THEN <<"TEXT">> ELSE ColumnNames(colCount),
     rows |-> <<>>]

\* A loader that binds SQL NULL for the cells a short row lacks.
PadRowNull(row, colCount) ==
    [i \in 1..colCount |-> IF i <= Len(row) THEN Text(row[i]) ELSE Null]

\* The values bound for one data row: the row padded with "" up to colCount,
\* and only its first colCount cells.
PadRow(row, colCount) ==
    [i \in 1..colCount |-> IF i <= Len(row) THEN Text(row[i]) ELSE Text("")]

\* The rows the INSERT has been executed for after data rows 1..n.
InsertRows(rws, colCount, n) == [k \in 1..n |-> PadRow(rws[k + 1], colCount)]

\* tx.Rollback(): the rows inserted in the transaction are gone.
Rollback(inserted) == <<>>

\* The store file ./data.db outlives the process: a session starts with the
\* tables earlier sessions imported.  StaleTable is what the import of a
\* one-column sheet with one data row left behind.
StaleTable ==
    LET old == <<<<"h">>, <<"old">>>>
    IN  [CreateTable(1) EXCEPT !.rows = InsertRows(old, 1, 1)]

PriorStores == [1..MaxSheets -> {NoTable, StaleTable}]

\* The session of the import specification: one OpenExcel call over the
\* store that earlier calls left.
InitImport ==
    /\ variant \in {"paged", "cached"}
    /\ NewApp \/ NewAppCached
    /\ result = [columns |-> <<>>, rows |-> <<>>]
    /\ written = NoFile
    /\ pc = "idle"
    /\ tables \in PriorStores
    /\ sheets = 0
    /\ sheetIdx = 0
    /\ rowIdx = 0
    /\ rows = <<>>
    /\ successCount = 0
    /\ skipped = {}
    /\ replaced = FALSE
    /\ openTx = 0
    /\ openStmts = 0
    /\ openFiles = 0
    /\ imports = 0
    /\ ret = NoRet

\* Where the load of a sheet can fail: at a statement, or at the INSERT of
\* data row `row`.
FailPoints(rws) ==
    {[at |-> a, row |-> 0] : a \in {"none", "drop", "create", "begin", "prepare", "commit"}}
        \cup {[at |-> "insert", row |-> k] : k \in 1..(Len(rws) - 1)}

\* A fresh call frame of OpenExcel.
Enter ==
    /\ imports' = imports + 1
    /\ sheetIdx' = 0
    /\ rowIdx' = 0
    /\ rows' = <<>>
    /\ successCount' = 0
    /\ skipped' = {}

\* ---------------------------------------------------------------- OpenExcel (paged)
\* A return after excelize.OpenFile: the deferred f.Close() and every
\* deferred stmt.Close() run.
Return(r) ==
    /\ ret' = r
    /\ pc' = "idle"
    /\ rows' = <<>>
    /\ openFiles' = openFiles - 1
    /\ openStmts' = 0

\* Lines 61-85: the nil check, the file dialog, OpenFile, GetSheetList.
OpenExcel ==
    /\ UNCHANGED queryVars
    /\ variant = "paged"
    /\ pc = "idle"
    /\ imports = 0
    /\ Enter
    /\ UNCHANGED <<variant, db, tables, replaced, openTx, openStmts>>
    /\ IF db = "nil"
       THEN /\ ret' = Ret("OpenExcel", "notInitialized")
            /\ UNCHANGED <<pc, sheets, openFiles>>
       ELSE \E dialog \in {"error", "cancel", "chosen"}, parsed \in 0..MaxSheets :
            IF dialog = "error"
            THEN /\ ret' = Ret("OpenExcel", "dialogFailed")
                 /\ UNCHANGED <<pc, sheets, openFiles>>
            ELSE IF dialog = "cancel"
            THEN /\ ret' = Ret("OpenExcel", "noFile")
                 /\ UNCHANGED <<pc, sheets, openFiles>>
            ELSE IF parsed = 0
            THEN /\ ret' = Ret("OpenExcel", "parseFailed")
                 /\ UNCHANGED <<pc, sheets, openFiles>>
            ELSE /\ openFiles' = openFiles + 1
                 /\ sheets' = parsed
                 /\ pc' = "loop"
                 /\ ret' = Ret("OpenExcel", "running")

\* Lines 92-94: `continue` on a sheet without rows; the next sheet is looked
\* at, nothing else has changed.
SkipSheet ==
    /\ sheetIdx' = sheetIdx + 1
    /\ skipped' = skipped \cup {sheetIdx + 1}
    /\ UNCHANGED <<tables, successCount>>

\* Lines 86-94 and 162: the loop head, GetRows, the skip of an empty sheet;
\* after the last sheet, the success message.
OpenExcelSheet ==
    /\ UNCHANGED queryVars
    /\ variant = "paged"
    /\ pc = "loop"
    /\ UNCHANGED <<variant, db, replaced, openTx, imports, sheets, rowIdx>>
    /\ IF sheetIdx = sheets
       THEN /\ Return([Ret("OpenExcel", "ok") EXCEPT
                          !.imported = successCount, !.discovered = sheets])
            /\ UNCHANGED <<tables, sheetIdx, successCount, skipped>>
       ELSE \E got \in {"error"} \cup {"rows"}, rws \in Sheets :
            IF got = "error"
            THEN /\ Return(Ret("OpenExcel", "readFailed"))
                 /\ UNCHANGED <<tables, sheetIdx, successCount, skipped>>
            ELSE IF Len(rws) = 0
            THEN /\ SkipSheet
                 /\ UNCHANGED <<pc, ret, rows, openFiles, openStmts>>
            ELSE /\ rows' = rws
                 /\ pc' = "load"
                 /\ UNCHANGED <<tables, ret, sheetIdx, successCount, skipped,
                                openFiles, openStmts>>

\* Lines 96-158: DROP, CREATE, Begin, Prepare, the INSERT of every data row,
\* Commit.
OpenExcelLoad ==
    /\ UNCHANGED queryVars
    /\ variant = "paged"
    /\ pc = "load"
    /\ UNCHANGED <<variant, db, imports, sheets, sheetIdx, successCount, skipped>>
    /\ \E fail \in FailPoints(rows) :
       LET t == sheetIdx + 1
           colCount == Len(rows[1])
           fresh == CreateTable(colCount)
           put(tbl) == [tables EXCEPT ![t] = tbl]
           hadRows == tables[t].exists /\ tables[t].rows # <<>>
       IN  IF fail.at = "drop"
           THEN /\ Return(Ret("OpenExcel", "dropFailed"))
                /\ UNCHANGED <<tables, replaced, openTx, rowIdx>>
           ELSE IF fail.at = "create"
           THEN /\ Return(Ret("OpenExcel", "createFailed"))
                /\ tables' = put(NoTable)
                /\ replaced' = hadRows
                /\ UNCHANGED <<openTx, rowIdx>>
           ELSE IF fail.at = "begin"
           THEN /\ Return(Ret("OpenExcel", "beginFailed"))
                /\ tables' = put(fresh)
                /\ replaced' = hadRows
                /\ UNCHANGED <<openTx, rowIdx>>
           ELSE IF colCount = 0
           THEN \* strings.Repeat("?,", 0)[:-1]: slice bounds out of range
                /\ pc' = "panic"
                /\ ret' = Ret("OpenExcel", "panic")
                /\ tables' = put(fresh)
                /\ replaced' = hadRows
                /\ openTx' = openTx + 1
                /\ openFiles' = openFiles - 1
                /\ UNCHANGED <<rows, openStmts, rowIdx>>
           ELSE IF fail.at = "prepare"
           THEN /\ Return(Ret("OpenExcel", "prepareFailed"))
                /\ tables' = put([fresh EXCEPT !.rows = Rollback(<<>>)])
                /\ replaced' = hadRows
                /\ UNCHANGED <<openTx, rowIdx>>
           ELSE IF fail.at = "insert"
           THEN /\ Return([Ret("OpenExcel", "insertFailed") EXCEPT !.row = fail.row])
                /\ rowIdx' = fail.row
                /\ tables' = put([fresh EXCEPT
                       !.rows = Rollback(InsertRows(rows, colCount, fail.row - 1))])
                /\ replaced' = hadRows
                /\ UNCHANGED openTx
           ELSE IF fail.at = "commit"
           THEN \* the driver rolls back a failed COMMIT; the Tx is done
                /\ Return(Ret("OpenExcel", "commitFailed"))
                /\ rowIdx' = Len(rows)
                /\ tables' = put(fresh)
                /\ replaced' = hadRows
                /\ UNCHANGED openTx
           ELSE /\ pc' = "next"
                /\ rowIdx' = Len(rows)
                /\ tables' = put([fresh EXCEPT
                       !.rows = InsertRows(rows, colCount, Len(rows) - 1)])
                /\ replaced' = hadRows
                /\ openStmts' = openStmts + 1
                /\ UNCHANGED <<ret, rows, openTx, openFiles>>

\* Lines 159-160: successCount++, and the next iteration.
OpenExcelNext ==
    /\ UNCHANGED queryVars
    /\ variant = "paged"
    /\ pc = "next"
    /\ successCount' = successCount + 1
    /\ sheetIdx' = sheetIdx + 1
    /\ rows' = <<>>
    /\ rowIdx' = 0
    /\ pc' = "loop"
    /\ UNCHANGED <<variant, db, ret, tables, replaced, openTx, openStmts, openFiles,
                   imports, sheets, skipped>>

\* ---------------------------------------------------------------- OpenExcel (cached)
\* A return of the cached variant's OpenExcel: nothing is deferred, the
\* workbook stays open.
ReturnCached(r) ==
    /\ ret' = r
    /\ pc' = "idle"
    /\ rows' = <<>>
    /\ UNCHANGED <<openFiles, openStmts>>

\* Lines 417-438: the file dialog, OpenFile, GetSheetList; db is not looked at.
OpenExcelCached ==
    /\ UNCHANGED queryVars
    /\ variant = "cached"
    /\ pc = "idle"
    /\ imports = 0
    /\ Enter
    /\ UNCHANGED <<variant, db, tables, replaced, openTx, openStmts>>
    /\ \E dialog \in {"error", "cancel", "chosen"}, parsed \in 0..MaxSheets :
       IF dialog = "error"
       THEN /\ ret' = Ret("OpenExcel", "dialogFailed")
            /\ UNCHANGED <<pc, sheets, openFiles>>
       ELSE IF dialog = "cancel"
       THEN /\ ret' = Ret("OpenExcel", "noFile")
            /\ UNCHANGED <<pc, sheets, openFiles>>
       ELSE IF parsed = 0
       THEN /\ ret' = Ret("OpenExcel", "parseFailed")
            /\ UNCHANGED <<pc, sheets, openFiles>>
       ELSE /\ openFiles' = openFiles + 1
            /\ sheets' = parsed
            /\ pc' = "loop"
            /\ ret' = Ret("OpenExcel", "running")

\* Lines 439-449 and 501: the loop head, GetRows, the skip of an empty sheet;
\* after the last sheet, the message counts every sheet of the file.
OpenExcelCachedSheet ==
    /\ UNCHANGED queryVars
    /\ variant = "cached"
    /\ pc = "loop"
    /\ UNCHANGED <<variant, db, replaced, openTx, imports, sheets, rowIdx>>
    /\ IF sheetIdx = sheets
       THEN /\ ReturnCached([Ret("OpenExcel", "ok") EXCEPT
                                !.imported = sheets, !.discovered = sheets])
            /\ UNCHANGED <<tables, successCount, sheetIdx, skipped>>
       ELSE \E got \in {"error"} \cup {"rows"}, rws \in Sheets :
            IF got = "error"
            THEN /\ ReturnCached(Ret("OpenExcel", "readFailed"))
                 /\ UNCHANGED <<tables, successCount, sheetIdx, skipped>>
            ELSE IF Len(rws) = 0
            THEN \* lines 447-449
                 /\ sheetIdx' = sheetIdx + 1
                 /\ skipped' = skipped \cup {sheetIdx + 1}
                 /\ UNCHANGED <<tables, successCount, pc, ret, rows, openFiles,
                                openStmts>>
            ELSE /\ rows' = rws
                 /\ pc' = "load"
                 /\ UNCHANGED <<tables, successCount, ret, sheetIdx, skipped,
                                openFiles, openStmts>>

\* Where the cached variant's load can fail.  With no header cell the INSERT
\* reads "INSERT INTO sheetN () VALUES ()", which the engine rejects at the
\* first data row.
FailPointsCached(rws) ==
    IF Len(rws[1]) = 0
    THEN {[at |-> a, row |-> 0] : a \in {"drop", "create"}}
             \cup {[at |-> "insert", row |-> 1]}
    ELSE {[at |-> a, row |-> 0] : a \in {"none", "drop", "create"}}
             \cup {[at |-> "insert", row |-> k] : k \in 1..(Len(rws) - 1)}

\* Lines 451-498: DROP, CREATE, and one autocommitted INSERT per data row.
OpenExcelCachedLoad ==
    /\ UNCHANGED queryVars
    /\ variant = "cached"
    /\ pc = "load"
    /\ UNCHANGED <<variant, db, imports, sheets, sheetIdx, successCount, skipped,
                   openTx>>
    /\ IF db = "nil"
       THEN \* a.db.Exec on a nil *sql.DB: nil pointer dereference
            /\ pc' = "panic"
            /\ ret' = Ret("OpenExcel", "panic")
            /\ UNCHANGED <<tables, replaced, rows, rowIdx, openFiles, openStmts>>
       ELSE \E fail \in FailPointsCached(rows) :
            LET t == sheetIdx + 1
                colCount == Len(rows[1])
                fresh == CreateTable(colCount)
                put(tbl) == [tables EXCEPT ![t] = tbl]
                hadRows == tables[t].exists /\ tables[t].rows # <<>>
            IN  IF fail.at = "drop"
                THEN /\ ReturnCached(Ret("OpenExcel", "dropFailed"))
                     /\ UNCHANGED <<tables, replaced, rowIdx>>
                ELSE IF fail.at = "create"
                THEN /\ ReturnCached(Ret("OpenExcel", "createFailed"))
                     /\ tables' = put(NoTable)
                     /\ replaced' = hadRows
                     /\ UNCHANGED rowIdx
                ELSE IF fail.at = "insert"
                THEN \* the message carries no row number
                     /\ ReturnCached(Ret("OpenExcel", "insertFailed"))
                     /\ rowIdx' = fail.row
                     /\ tables' = put([fresh EXCEPT
                            !.rows = InsertRows(rows, colCount, fail.row - 1)])
                     /\ replaced' = hadRows
                ELSE /\ pc' = "next"
                     /\ rowIdx' = Len(rows)
                     /\ tables' = put([fresh EXCEPT
                            !.rows = InsertRows(rows, colCount, Len(rows) - 1)])
                     /\ replaced' = hadRows
                     /\ UNCHANGED <<ret, rows, openFiles, openStmts>>

\* Line 499: the next iteration.
OpenExcelCachedNext ==
    /\ UNCHANGED queryVars
    /\ variant = "cached"
    /\ pc = "next"
    /\ sheetIdx' = sheetIdx + 1
    /\ rows' = <<>>
    /\ rowIdx' = 0
    /\ pc' = "loop"
    /\ UNCHANGED <<variant, db, ret, tables, replaced, openTx, openStmts, openFiles,
                   imports, sheets, skipped, successCount>>

NextImport ==
    \/ OpenExcel
    \/ OpenExcelSheet
    \/ OpenExcelLoad
    \/ OpenExcelNext
    \/ OpenExcelCached
    \/ OpenExcelCachedSheet
    \/ OpenExcelCachedLoad
    \/ OpenExcelCachedNext

SpecImport == InitImport /\ [][NextImport]_vars

\* ---------------------------------------------------------------- Go int
Modulus == 2 ^ IntBits
MaxInt == (2 ^ (IntBits - 1)) - 1
MinInt == -(2 ^ (IntBits - 1))
GoInts == MinInt..MaxInt

\* The int a Go expression of mathematical value x evaluates to.
Wrap(x) == ((x - MinInt) % Modulus) + MinInt

Abs(x) == IF x < 0 THEN -x ELSE x

\* a / b of Go: the quotient truncated towards zero (b # 0).
Quot(a, b) ==
    LET q == Abs(a) \div Abs(b)
    IN  Wrap(IF (a < 0) = (b < 0) THEN q ELSE -q)

\* ---------------------------------------------------------------- query text
Chars == {" ", "q"}
Texts == UNION {[1..n -> Chars] : n \in 0..MaxTextLen}

RECURSIVE TrimLeft(_)
TrimLeft(s) ==
    IF s # <<>> /\ Head(s) = " " THEN TrimLeft(Tail(s)) ELSE s

RECURSIVE TrimRight(_)
TrimRight(s) ==
    IF s # <<>> /\ s[Len(s)] = " " THEN TrimRight(SubSeq(s, 1, Len(s) - 1)) ELSE s

\* A handler that takes the query text as it comes.
NoTrim(s) == s

\* strings.TrimSpace
TrimSpace(s) == TrimRight(TrimLeft(s))

\* ---------------------------------------------------------------- the engine
\* The statement the store has an answer to; every other statement is
\* rejected by the engine.
Statement == <<"q">>

\* The kind of the value the driver hands over for row r, column i.
RawKind(r, i) ==
    LET k == (r + i) % 4
    IN  IF k = 0 THEN "bytes" ELSE IF k = 1 THEN "null" ELSE IF k = 2 THEN "int" ELSE "text"

RawValue(r, i) ==
    [kind |-> RawKind(r, i), v |-> IF RawKind(r, i) = "null" THEN "" ELSE Cell(r, i)]

\* A result set of nCols columns and nRows rows; with dup, the second column
\* carries the name of the first (SELECT a, a ...).
ResultSet(nCols, nRows, dup) ==
    [columns |-> [i \in 1..nCols |->
                    IF dup /\ i = 2 THEN "c1" ELSE "c" \o ToString(i)],
     rows |-> [r \in 1..nRows |-> [i \in 1..nCols |-> RawValue(r, i)]]]

\* The result sets of the query session: two columns.
ResultSets ==
    {ResultSet(2, m, d) : m \in 0..MaxQRows, d \in BOOLEAN}

\* The result sets of the export session: up to MaxQCols columns.
WideResultSets ==
    {ResultSet(n, m, FALSE) : n \in 1..MaxQCols, m \in 0..MaxQRows}

\* How a query can fail in the engine: db.Query, rows.Columns, rows.Scan,
\* rows.Err.
QueryFails == {"none", "query", "columns", "scan", "err"}

\* ---------------------------------------------------------------- materializing
\* Lines 219-225 and 305-311: []byte becomes string, nil becomes "".
Normalize(val) ==
    IF val.kind = "bytes" THEN Text(val.v)
    ELSE IF val.kind = "null" THEN Text("")
    ELSE val

\* Lines 546-550: []byte becomes string, everything else is kept.
NormalizeCached(val) ==
    IF val.kind = "bytes" THEN Text(val.v) ELSE val

Range(f) == {f[i] : i \in DOMAIN f}

Max(S) == CHOOSE x \in S : \A y \in S : y <= x

\* The map built for one scanned row: row[col] = value, a later column of the
\* same name overwriting an earlier one.
ScanRow(columns, raw) ==
    [c \in Range(columns) |->
        Normalize(raw[Max({i \in DOMAIN columns : columns[i] = c})])]

ScanRowCached(columns, raw) ==
    [c \in Range(columns) |->
        NormalizeCached(raw[Max({i \in DOMAIN columns : columns[i] = c})])]

\* fullData after the scan loop.
FullData(res) == [r \in DOMAIN res.rows |-> ScanRow(res.columns, res.rows[r])]

\* ---------------------------------------------------------------- paging
\* Lines 235-248 on a materialized fullData.  pageSize = 0 divides by zero;
\* a slice fullData[start:end] with start < 0 or end < start is out of range.
Paginate(fullData, pageNum, pageSize) ==
    LET total == Len(fullData)
        totalPages == IF pageSize = 0 THEN 0
                      ELSE Quot(Wrap(total + pageSize - 1), pageSize)
        start == Wrap((pageNum - 1) * pageSize)
        end0 == Wrap(start + pageSize)
        end == IF end0 > total THEN total ELSE end0
    IN  [panic |-> pageSize = 0 \/ (start < total /\ (start < 0 \/ end < start)),
         total |-> total,
         totalPages |-> totalPages,
         data |-> IF start < total /\ start >= 0 /\ end >= start
                  THEN SubSeq(fullData, start + 1, end)
                  ELSE <<>>]

\* ---------------------------------------------------------------- queries (paged)
\* What the engine hands the handler for statement stmt under failure `fail`:
\* an error kind, or "ok".
Query(stmt, fail) ==
    IF fail = "query" \/ stmt # Statement THEN "queryFailed"
    ELSE IF fail = "columns" THEN "columnsFailed"
    ELSE IF fail = "scan" /\ result.rows # <<>> THEN "scanFailed"
    ELSE IF fail = "err" THEN "iterateFailed"
    ELSE "ok"

\* Lines 167-259.
ExecuteSQLWithPage(sqlStr, pageNum, pageSize, fail) ==
    /\ variant = "paged"
    /\ pc = "idle"
    /\ UNCHANGED <<variant, db, importVars, queryResult, result, written>>
    /\ LET s == TrimSpace(sqlStr)
           got == Query(s, fail)
           page == Paginate(FullData(result), pageNum, pageSize)
       IN  IF db = "nil"
           THEN /\ ret' = Ret("ExecuteSQLWithPage", "notInitialized")
                /\ UNCHANGED <<pc, currentSQL, currentPage, currentPageSize>>
           ELSE IF s = <<>>
           THEN /\ ret' = Ret("ExecuteSQLWithPage", "emptySQL")
                /\ UNCHANGED <<pc, currentSQL, currentPage, currentPageSize>>
           ELSE /\ currentSQL' = s
                /\ currentPage' = pageNum
                /\ currentPageSize' = pageSize
                /\ IF got # "ok"
                   THEN /\ ret' = [Ret("ExecuteSQLWithPage", got) EXCEPT !.engine = TRUE]
                        /\ UNCHANGED pc
                   ELSE IF page.panic
                   THEN /\ ret' = [Ret("ExecuteSQLWithPage", "panic") EXCEPT !.engine = TRUE]
                        /\ pc' = "panic"
                   ELSE /\ ret' = [Ret("ExecuteSQLWithPage", "ok") EXCEPT
                                      !.engine = TRUE,
                                      !.columns = result.columns,
                                      !.data = page.data,
                                      !.total = page.total,
                                      !.totalPages = page.totalPages,
                                      !.currentPage = pageNum,
                                      !.pageSize = pageSize]
                        /\ UNCHANGED pc

\* The column the cell name fmt.Sprintf("%c%d", 'A'+colIdx, row) addresses in
\* the workbook: 'A'..'Z' and 'a'..'z' name columns 1..26, any other
\* character makes no cell name and SetCellValue fails (0).
CellColumn(colIdx) ==
    LET ch == 65 + colIdx
    IN  IF ch \in 65..90 THEN ch - 64
        ELSE IF ch \in 97..122 THEN ch - 96
        ELSE 0

\* Lines 342-358: the workbook after the header and every data row have
\* been written, SetCellValue's errors dropped; a later write to a cell
\* replaces an earlier one.
Workbook(columns, fullData) ==
    LET cols == {CellColumn(i - 1) : i \in DOMAIN columns} \ {0}
        src(c) == Max({i \in DOMAIN columns : CellColumn(i - 1) = c})
    IN  [x \in cols \X (1..(Len(fullData) + 1)) |->
            IF x[2] = 1 THEN Text(columns[src(x[1])])
            ELSE fullData[x[2] - 1][columns[src(x[1])]]]

\* An export without the check for an empty result.
IsEmptyNever(data) == FALSE

\* Line 322 and line 567: there is nothing to export.
IsEmpty(data) == Len(data) = 0

\* Lines 263-366.
ExportExcelBySQL(sqlStr, fail, dialog) ==
    /\ variant = "paged"
    /\ pc = "idle"
    /\ UNCHANGED <<variant, db, pc, importVars, currentSQL, currentPage,
                   currentPageSize, queryResult, result>>
    /\ LET s == TrimSpace(sqlStr)
           got == Query(s, fail)
           fullData == FullData(result)
           used == [Ret("ExportExcelBySQL", "ok") EXCEPT !.engine = TRUE]
       IN  IF db = "nil"
           THEN /\ ret' = Ret("ExportExcelBySQL", "notInitialized")
                /\ UNCHANGED written
           ELSE IF s = <<>>
           THEN /\ ret' = Ret("ExportExcelBySQL", "emptySQL")
                /\ UNCHANGED written
           ELSE IF got # "ok"
           THEN /\ ret' = [used EXCEPT !.kind = got]
                /\ UNCHANGED written
           ELSE IF IsEmpty(fullData)
           THEN /\ ret' = [used EXCEPT !.kind = "emptyResult"]
                /\ UNCHANGED written
           ELSE IF dialog = "error"
           THEN /\ ret' = [used EXCEPT !.kind = "dialogFailed", !.dialog = TRUE]
                /\ UNCHANGED written
           ELSE IF dialog = "cancel"
           THEN /\ ret' = [used EXCEPT !.kind = "cancelled", !.dialog = TRUE]
                /\ UNCHANGED written
           ELSE IF dialog = "saveFailed"
           THEN /\ ret' = [used EXCEPT !.kind = "saveFailed", !.dialog = TRUE]
                /\ UNCHANGED written
           ELSE /\ ret' = [used EXCEPT !.dialog = TRUE, !.total = Len(fullData)]
                /\ written' = [kind |-> "xlsx",
                               cells |-> Workbook(result.columns, fullData),
                               records |-> <<>>]

\* Lines 370-372.
GetCurrentSQL ==
    /\ variant = "paged"
    /\ pc = "idle"
    /\ ret' = [Ret("GetCurrentSQL", "ok") EXCEPT !.value = currentSQL]
    /\ UNCHANGED <<variant, db, pc, importVars, queryVars>>

\* ---------------------------------------------------------------- queries (cached)
\* Lines 505-563.  db is not looked at; rows.Err() is not looked at, so an
\* iteration the engine broke off (before the last row) ends as a result.
ExecuteSQL(sqlStr, fail) ==
    /\ variant = "cached"
    /\ pc = "idle"
    /\ UNCHANGED <<variant, db, importVars, currentSQL, currentPage,
                   currentPageSize, result, written>>
    /\ LET s == TrimSpace(sqlStr)
           got == Query(s, fail)
           n == IF got = "iterateFailed" /\ result.rows # <<>>
                THEN Len(result.rows) - 1 ELSE Len(result.rows)
           data == [r \in 1..n |-> ScanRowCached(result.columns, result.rows[r])]
       IN  IF s = <<>>
           THEN /\ ret' = Ret("ExecuteSQL", "emptySQL")
                /\ UNCHANGED <<pc, queryResult>>
           ELSE IF db = "nil"
           THEN \* a.db.Query on a nil *sql.DB: nil pointer dereference
                /\ ret' = Ret("ExecuteSQL", "panic")
                /\ pc' = "panic"
                /\ UNCHANGED queryResult
           ELSE IF got \in {"queryFailed", "columnsFailed", "scanFailed"}
           THEN /\ ret' = [Ret("ExecuteSQL", got) EXCEPT !.engine = TRUE]
                /\ UNCHANGED <<pc, queryResult>>
           ELSE /\ queryResult' = [Columns |-> result.columns, Data |-> data]
                /\ ret' = [Ret("ExecuteSQL", "ok") EXCEPT
                              !.engine = TRUE,
                              !.columns = result.columns,
                              !.data = data,
                              !.total = Len(data)]
                /\ UNCHANGED pc

\* Lines 608-615: a string as it is, anything else through %v.
Stringify(val) ==
    IF val.kind = "null" THEN "<nil>" ELSE val.v

\* Lines 566-622.
SaveResult(dialog) ==
    /\ variant = "cached"
    /\ pc = "idle"
    /\ UNCHANGED <<variant, db, pc, importVars, currentSQL, currentPage,
                   currentPageSize, queryResult, result>>
    /\ LET cols == queryResult.Columns
           record(row) == [i \in DOMAIN cols |-> Stringify(row[cols[i]])]
           done == Ret("SaveResult", "ok")
       IN  IF IsEmpty(queryResult.Data)
           THEN /\ ret' = [done EXCEPT !.kind = "emptyResult"]
                /\ UNCHANGED written
           ELSE IF dialog = "error"
           THEN /\ ret' = [done EXCEPT !.kind = "dialogFailed", !.dialog = TRUE]
                /\ UNCHANGED written
           ELSE IF dialog = "cancel"
           THEN /\ ret' = [done EXCEPT !.kind = "cancelled", !.dialog = TRUE]
                /\ UNCHANGED written
           ELSE IF dialog = "saveFailed"
           THEN /\ ret' = [done EXCEPT !.kind = "createFailed", !.dialog = TRUE]
                /\ UNCHANGED written
           ELSE /\ ret' = [done EXCEPT !.dialog = TRUE]
                /\ written' = [kind |-> "csv",
                               cells |-> <<>>,
                               records |-> <<cols>> \o
                                   [r \in DOMAIN queryResult.Data |->
                                       record(queryResult.Data[r])]]

\* ---------------------------------------------------------------- the query session
PageArgs == 1..MaxPageArg

\* The save dialog fails, is cancelled, or gives a path; with a path, writing
\* the file (f.SaveAs, os.Create) fails or succeeds.
Dialogs == {"error", "cancel", "saveFailed", "saved"}

\* The texts of the query session: no text, a blank text, the statement the
\* store answers, and a statement the engine rejects.
QueryTexts == {<<>>, <<" ">>, Statement, Statement \o Statement}

InitQuery ==
    /\ variant \in {"paged", "cached"}
    /\ NewApp \/ NewAppCached
    /\ result \in ResultSets
    /\ written = NoFile
    /\ pc = "idle"
    /\ tables = [n \in 1..MaxSheets |-> NoTable]
    /\ sheets = 0
    /\ sheetIdx = 0
    /\ rowIdx = 0
    /\ rows = <<>>
    /\ successCount = 0
    /\ skipped = {}
    /\ replaced = FALSE
    /\ openTx = 0
    /\ openStmts = 0
    /\ openFiles = 0
    /\ imports = 0
    /\ ret = NoRet

NextQuery ==
    \/ \E sqlStr \in QueryTexts, pageNum \in PageArgs, pageSize \in PageArgs,
          fail \in QueryFails :
          ExecuteSQLWithPage(sqlStr, pageNum, pageSize, fail)
    \/ \E sqlStr \in QueryTexts, fail \in QueryFails, dialog \in Dialogs :
          ExportExcelBySQL(sqlStr, fail, dialog)
    \/ GetCurrentSQL
    \/ \E sqlStr \in QueryTexts, fail \in QueryFails : ExecuteSQL(sqlStr, fail)
    \/ \E dialog \in Dialogs : SaveResult(dialog)

SpecQuery == InitQuery /\ [][NextQuery]_vars

\* ---------------------------------------------------------------- query texts
\* The handlers called with every query text, over an engine that answers
\* (with no row, or with MaxQRows rows) and a save dialog that gives a path.
InitText ==
    /\ InitQuery
    /\ result \in {ResultSet(2, m, FALSE) : m \in {0, MaxQRows}}

NextText ==
    \/ \E sqlStr \in Texts, pageNum \in PageArgs, pageSize \in PageArgs :
          ExecuteSQLWithPage(sqlStr, pageNum, pageSize, "none")
    \/ \E sqlStr \in Texts : ExportExcelBySQL(sqlStr, "none", "saved")
    \/ GetCurrentSQL
    \/ \E sqlStr \in Texts : ExecuteSQL(sqlStr, "none")
    \/ SaveResult("saved")

SpecText == InitText /\ [][NextText]_vars

\* ---------------------------------------------------------------- export of wide results
\* The paged App on an open store whose query has up to MaxQCols columns:
\* the query is paged and exported.
InitExport ==
    /\ variant = "paged"
    /\ db = "open"
    /\ NewApp
    /\ result \in WideResultSets
    /\ written = NoFile
    /\ pc = "idle"
    /\ tables = [n \in 1..MaxSheets |-> NoTable]
    /\ sheets = 0
    /\ sheetIdx = 0
    /\ rowIdx = 0
    /\ rows = <<>>
    /\ successCount = 0
    /\ skipped = {}
    /\ replaced = FALSE
    /\ openTx = 0
    /\ openStmts = 0
    /\ openFiles = 0
    /\ imports = 0
    /\ ret = NoRet

NextExport ==
    \/ \E pageNum \in PageArgs, pageSize \in PageArgs :
          ExecuteSQLWithPage(Statement, pageNum, pageSize, "none")
    \/ \E dialog \in Dialogs : ExportExcelBySQL(Statement, "none", dialog)

SpecExport == InitExport /\ [][NextExport]_vars

\* ---------------------------------------------------------------- paging over all of int
\* The paged App on an open store whose query has 0..MaxQRows rows of one
\* column, called with every page number and page size an int can hold.
InitPage ==
    /\ InitExport
    /\ result \in {ResultSet(1, m, FALSE) : m \in 0..MaxQRows}

NextPage ==
    \E pageNum \in GoInts, pageSize \in GoInts :
        ExecuteSQLWithPage(Statement, pageNum, pageSize, "none")

SpecPage == InitPage /\ [][NextPage]_vars

\* ================================================================ properties
\* ---------------------------------------------------------------- import
\* C2: when OpenExcel has loaded a sheet successfully (the load is committed
\* and the handler is about to count the sheet), whatever table sheetN held
\* before, table sheetN has exactly colCount = len(header) columns and
\* exactly rowCount - 1 rows, none of them from an earlier import: in row k
\* value i is cell i of data row k when the row has one and the empty
\* string, never null, otherwise.
C2_ImportedTable ==
    pc = "next" =>
        LET tbl == tables[sheetIdx + 1]
            colCount == Len(rows[1])
        IN  /\ tbl.exists
            /\ Len(tbl.columns) = colCount
            /\ Len(tbl.rows) = Len(rows) - 1
            /\ \A k \in 1..(Len(rows) - 1) :
                  /\ DOMAIN tbl.rows[k] = 1..colCount
                  /\ \A i \in 1..colCount :
                        tbl.rows[k][i] =
                            IF i <= Len(rows[k + 1])
                            THEN [kind |-> "text", v |-> rows[k + 1][i]]
                            ELSE [kind |-> "text", v |-> ""]

\* C2 happens: a sheet with a data row shorter than its header has been
\* loaded over a table that held the rows of an earlier import.
C2_Witness ==
    /\ pc = "next"
    /\ replaced
    /\ \E k \in 2..Len(rows) : Len(rows[k]) < Len(rows[1])

\* C3: when the insert of data row k of a sheet has failed, table sheetN has
\* no rows, the error returned names row k, and the import has returned
\* without touching a later sheet (whose table holds nothing of this file).
C3_RowFailureAllOrNothing ==
    (ret.op = "OpenExcel" /\ ret.kind = "insertFailed") =>
        /\ pc = "idle"
        /\ tables[sheetIdx + 1].rows = <<>>
        /\ ret.row = rowIdx
        /\ \A n \in (sheetIdx + 2)..MaxSheets : tables[n] \in {NoTable, StaleTable}

\* C5: when OpenExcel (lines 61-163) has completed, every sheet that had no
\* rows is left out of the imported count (imported = discovered - skipped),
\* and no table sheetN exists for it, whatever the store held before.
C5_SkippedSheetHasNoTable ==
    (variant = "paged" /\ pc = "idle" /\ ret.op = "OpenExcel" /\ ret.kind = "ok") =>
        /\ ret.discovered = sheets
        /\ ret.imported = ret.discovered - Cardinality(skipped)
        /\ \A n \in skipped : ~tables[n].exists

\* C10: whenever OpenExcel has returned, no transaction, no prepared
\* statement and no workbook handle that the call opened is still open.
C10_ResourcesReleased ==
    (pc = "idle" /\ ret.op = "OpenExcel") =>
        /\ openTx = 0
        /\ openStmts = 0
        /\ openFiles = 0

\* ---------------------------------------------------------------- paging
\* C1: for pageNum >= 1 and pageSize >= 1 (kept in currentPage and
\* currentPageSize by the call), ExecuteSQLWithPage on a result of `total`
\* rows returns totalPages = ceil(total / pageSize) and exactly the rows
\* [(pageNum-1)*pageSize, min(pageNum*pageSize, total)) of the result, in
\* order: no rows, and no error, when pageNum > totalPages.
C1_PagingArithmetic ==
    (ret.op = "ExecuteSQLWithPage" /\ currentPage >= 1 /\ currentPageSize >= 1) =>
        LET full == FullData(result)
            total == Len(full)
            ceil == (total + currentPageSize - 1) \div currentPageSize
            lo == (currentPage - 1) * currentPageSize
            hi == IF currentPage * currentPageSize < total
                  THEN currentPage * currentPageSize ELSE total
        IN  /\ ret.kind = "ok"
            /\ ret.total = total
            /\ ret.totalPages = ceil
            /\ ret.data = [k \in 1..(IF hi > lo THEN hi - lo ELSE 0) |-> full[lo + k]]
            /\ currentPage > ceil => ret.data = <<>>

\* C4: a call of ExecuteSQLWithPage with pageSize <= 0 is rejected with an
\* error before the engine is queried: no division by zero, no slice out of
\* range, no result.
C4_NonPositivePageSizeRejected ==
    (ret.op = "ExecuteSQLWithPage" /\ currentPageSize <= 0) =>
        /\ pc # "panic"
        /\ ret.kind \notin {"ok", "panic"}
        /\ ~ret.engine

\* C6: when the store could not be opened at startup (db is nil), every
\* exported operation returns the 'not initialized' error, and none of them
\* crashes or reaches the engine.
C6_NotInitialized ==
    db = "nil" =>
        /\ pc # "panic"
        /\ ret.op \in {"OpenExcel", "ExecuteSQLWithPage", "ExportExcelBySQL",
                       "ExecuteSQL", "SaveResult"}
              => (ret.kind = "notInitialized" /\ ~ret.engine)

\* C7: the file a successful ExportExcelBySQL wrote reads back as the
\* columns ExecuteSQLWithPage returns for the same query, in the same order,
\* followed by the rows of pages 1..totalPages of that query, concatenated,
\* whatever the page size.
C7_ExportEqualsPages ==
    (ret.op = "ExportExcelBySQL" /\ ret.kind = "ok") =>
        LET columns == result.columns
            width == Cardinality({x[1] : x \in DOMAIN written.cells})
            height == Cardinality({x[2] : x \in DOMAIN written.cells})
            header == [i \in 1..width |-> written.cells[<<i, 1>>].v]
            body == [r \in 1..(height - 1) |->
                        [i \in 1..width |-> written.cells[<<i, r + 1>>]]]
        IN  /\ header = columns
            /\ \A pageSize \in PageArgs :
                  LET page(p) == Paginate(FullData(result), p, pageSize)
                      RECURSIVE Pages(_)
                      Pages(p) == IF p = 0 THEN <<>>
                                  ELSE Pages(p - 1) \o page(p).data
                      all == Pages(page(1).totalPages)
                  IN  body = [r \in DOMAIN all |->
                                [i \in DOMAIN columns |-> all[r][columns[i]]]]

\* ---------------------------------------------------------------- queries
\* C8: an export whose query returned no rows (ExportExcelBySQL after the
\* engine answered with an empty result, SaveResult on an empty cached
\* result) returns the empty-result error, does not open the save dialog and
\* writes no file.
C8_EmptyExportWritesNothing ==
    [][ /\ ( /\ ret'.op = "ExportExcelBySQL"
             /\ ret'.engine
             /\ ret'.kind \notin {"queryFailed", "columnsFailed", "scanFailed",
                                  "iterateFailed"}
             /\ result.rows = <<>> )
           => (ret'.kind = "emptyResult" /\ ~ret'.dialog /\ written' = written)
        /\ (ret'.op = "SaveResult" /\ queryResult.Data = <<>>)
           => (ret'.kind = "emptyResult" /\ ~ret'.dialog /\ written' = written)
      ]_vars

\* C8 happens: an export of a query without rows has returned the
\* empty-result error, and there is no file.
C8_Witness ==
    /\ ret.op = "ExportExcelBySQL"
    /\ ret.kind = "emptyResult"
    /\ result.rows = <<>>
    /\ written = NoFile

\* The query texts that are empty or all whitespace.
BlankTexts == {t \in Texts : \A i \in DOMAIN t : t[i] = " "}

\* C9: a query text that is empty or all whitespace is rejected by
\* ExecuteSQLWithPage, ExportExcelBySQL and ExecuteSQL with an error before
\* the engine is reached, and leaves the session as it was: currentSQL,
\* currentPage, currentPageSize and the cached result keep their values, and
\* GetCurrentSQL returns the query recorded before.
C9_BlankQueryRejected ==
    [][ /\ \A sqlStr \in BlankTexts :
             ( \/ /\ ret'.op = "ExecuteSQLWithPage"
                  /\ \E pageNum \in PageArgs, pageSize \in PageArgs :
                        ExecuteSQLWithPage(sqlStr, pageNum, pageSize, "none")
               \/ /\ ret'.op = "ExportExcelBySQL"
                  /\ ExportExcelBySQL(sqlStr, "none", "saved")
               \/ /\ ret'.op = "ExecuteSQL"
                  /\ ExecuteSQL(sqlStr, "none") )
             => /\ ret'.kind \in {"emptySQL", "notInitialized"}
                /\ ~ret'.engine
                /\ pc' = "idle"
                /\ UNCHANGED <<currentSQL, currentPage, currentPageSize,
                               queryResult, written>>
        /\ GetCurrentSQL => ret'.value = currentSQL
      ]_vars

\* C9 happens: a blank query text has been rejected while a query recorded
\* before is still the current one.
C9_Witness ==
    /\ ret.op = "ExecuteSQLWithPage"
    /\ ret.kind = "emptySQL"
    /\ currentSQL = Statement
    /\ currentPage = MaxPageArg

====
